---- MODULE Spec2Model ----
(***************************************************************************)
(* A model of three operators of the pylot pipeline:                       *)
(*   - CarlaLidarDriverOperator (pylot/drivers/carla_lidar_driver_         *)
(*     operator.py): the simulator callback process_point_clouds and the   *)
(*     release handler on_watermark, interleaved statement by statement;   *)
(*   - PredictionEvalOperator (pylot/prediction/prediction_eval_           *)
(*     operator.py): on_data and on_watermark, one callback at a time;     *)
(*   - DetectionDecayOperator (pylot/perception/detection/detection_       *)
(*     decay_operator.py): on_data, one callback at a time;                *)
(*   - PredictionEvalOperator._calculate_metrics, one scoring pass at a    *)
(*     time, obstacle by obstacle.                                         *)
(***************************************************************************)
EXTENDS Integers, Sequences, FiniteSets, TLC

(***************************************************************************)
(* Bounds of the model.                                                    *)
(***************************************************************************)
\* Simulator callbacks (process_point_clouds invocations) in one behaviour.
MaxOffers == 2
\* Watermark callbacks of the LiDAR driver in one behaviour.
MaxReleases == 2

\* The evaluator's watermarks carry the timestamps 1..MaxKey.
MaxKey == 4
\* flags.prediction_num_future_steps, the prediction horizon.
W == 2

\* flags.decay_max_latency, the oldest age the decay window keeps.
DecayMaxLatency == 2
\* The decay operator's messages carry the game times 0..MaxTime.
MaxTime == 5
\* on_data callbacks of the decay operator in one behaviour.
MaxObserve == 4

\* Obstacles in the batch of one scoring pass.
MaxBatch == 2
\* Scoring passes (_calculate_metrics invocations) in one behaviour.
MaxPasses == 2

\* Logical times (the single coordinate of a non-top erdos.Timestamp).
GateKeys == {1, 2}
\* What a simulator point cloud can carry: no points, or one of two clouds.
RawData == {"empty", "a", "b"}
\* The threads of a behaviour: the simulator's callback thread, which runs
\* process_point_clouds (its whole body is serialised by self._lock), and two
\* threads on which the runtime may run on_watermark.
Producers == {"p1"}
Handlers == {"h1", "h2"}
NoThread == "nobody"

VARIABLES
    release_data,      \* self._release_data
    pickled_messages,  \* self._pickled_messages: timestamp -> pickled bytes
    lock,              \* holder of self._lock
    pickle_lock,       \* holder of self._pickle_lock
    left_stream,       \* what was sent on left_write_stream, in order
    right_stream,      \* what was sent on right_write_stream, in order
    prod,              \* per producer thread: position and locals
    hand,              \* per watermark thread: position and locals
    nOffer,            \* history: process_point_clouds invocations per key
    lastOffer,         \* history: the point cloud of the latest one, per key
    nDel,              \* history: executed `del` statements per key
    overlap,           \* history: two on_watermark(K) were in flight at once
    nRelease           \* history: on_watermark invocations

gateVars == <<release_data, pickled_messages, lock, pickle_lock, left_stream,
              right_stream, prod, hand, nOffer, lastOffer, nDel, overlap,
              nRelease>>

VARIABLES
    prediction_msgs,   \* self._prediction_msgs
    tracking_msgs,     \* self._tracking_msgs
    pose_msgs,         \* self._pose_msgs
    predictions,       \* self._predictions, a deque(maxlen=W)
    lastWm,            \* history: the latest non-top watermark handled
    nWm,               \* history: non-top watermarks handled
    anyErr,            \* history: one of them raised
    nScore,            \* history: invocations of _calculate_metrics
    last,              \* history: the latest callback and what it did
    consumed           \* history: the batch each watermark took, while none
                       \* of them raised

evalVars == <<prediction_msgs, tracking_msgs, pose_msgs, predictions, lastWm,
              nWm, anyErr, nScore, last, consumed>>

VARIABLES
    ground_bboxes,     \* self._ground_bboxes: (game_time, bboxes), in order
    decay_sent,        \* what the latest on_data sent on write_stream
    decay_last,        \* history: the latest on_data and how it ended
    nObserve,          \* history: on_data callbacks
    monotone           \* history: their game times never went down

decayVars == <<ground_bboxes, decay_sent, decay_last, nObserve, monotone>>

VARIABLES
    score_pc,          \* _calculate_metrics: "idle", or "loop" (line 121)
    cnt,               \* vehicle_cnt, person_cnt (0 outside a pass)
    sums,              \* vehicle_msd .. person_fde (0 outside a pass)
    batch,             \* history: labels of the obstacles read in this pass
    entity,            \* history: the obstacle of the latest iteration
    rows,              \* the csv rows logged by the latest pass
    score_result,      \* history: how the latest pass ended
    scored,            \* history: obstacles counted per class, all passes
    nPass              \* history: passes started

scoreVars == <<score_pc, cnt, sums, batch, entity, rows, score_result,
               scored, nPass>>

vars == <<gateVars, evalVars, decayVars, scoreVars>>

\* What a step of one operator leaves alone: the other operators.
notGateVars == <<evalVars, decayVars, scoreVars>>
notEvalVars == <<gateVars, decayVars, scoreVars>>
notDecayVars == <<gateVars, evalVars, scoreVars>>
notScoreVars == <<gateVars, evalVars, decayVars>>

(***************************************************************************)
(* Messages and serialisation.                                             *)
(***************************************************************************)
\* pickle.dumps(data): the bytes are not the object.
Pickle(d) == <<"pkl", d>>
\* What the receiver of send_pickled reads back.
Unpickle(b) == b[2]

\* erdos.Message(timestamp, data) handed to WriteStream.send
Message(k, d) == [kind |-> "data", ts |-> k, data |-> d, via |-> "send"]
\* WriteStream.send_pickled(timestamp, bytes)
PickledMessage(k, b) ==
    [kind |-> "data", ts |-> k, data |-> Unpickle(b), via |-> "send_pickled"]
\* erdos.WatermarkMessage(timestamp)
WatermarkMessage(k) == [kind |-> "wm", ts |-> k, data |-> "none", via |-> "send"]

ProdIdle == [pc |-> "idle", ts |-> 0, data |-> "none", mode |-> "none"]
HandIdle == [pc |-> "idle", is_top |-> FALSE, ts |-> 0, msg |-> <<>>,
             err |-> "none"]

ProdResting(p) == prod[p].pc \in {"idle", "done", "failed"}
HandResting(h) == hand[h].pc \in {"idle", "done", "failed"}

RECURSIVE SumOver(_, _)
SumOver(f, S) ==
    IF S = {} THEN 0
    ELSE LET x == CHOOSE y \in S : TRUE IN f[x] + SumOver(f, S \ {x})

GateInit ==
    /\ release_data = FALSE
    /\ pickled_messages = <<>>
    /\ lock = NoThread
    /\ pickle_lock = NoThread
    /\ left_stream = <<>>
    /\ right_stream = <<>>
    /\ prod = [p \in Producers |-> ProdIdle]
    /\ hand = [h \in Handlers |-> HandIdle]
    /\ nOffer = [k \in GateKeys |-> 0]
    /\ lastOffer = [k \in GateKeys |-> "none"]
    /\ nDel = [k \in GateKeys |-> 0]
    /\ overlap = [k \in GateKeys |-> FALSE]
    /\ nRelease = 0

(***************************************************************************)
(* process_point_clouds                                                    *)
(***************************************************************************)
\* The simulator invokes the callback with a point cloud: lines 52-55.
ProcessEnter(p, k, d) ==
    /\ ProdResting(p)
    /\ SumOver(nOffer, GateKeys) < MaxOffers
    /\ prod' = [prod EXCEPT ![p] = [pc |-> "wait_lock", ts |-> k, data |-> d,
                                    mode |-> "none"]]
    /\ nOffer' = [nOffer EXCEPT ![k] = @ + 1]
    /\ lastOffer' = [lastOffer EXCEPT ![k] = d]
    /\ UNCHANGED <<release_data, pickled_messages, lock, pickle_lock,
                   left_stream, right_stream, hand, nDel, overlap, nRelease>>

\* `with self._lock:` line 60.
ProcessLock(p) ==
    /\ prod[p].pc = "wait_lock"
    /\ lock = NoThread
    /\ lock' = p
    /\ prod' = [prod EXCEPT ![p].pc = "check"]
    /\ UNCHANGED <<release_data, pickled_messages, pickle_lock, left_stream,
                   right_stream, hand, nOffer, lastOffer, nDel, overlap, nRelease>>

\* ProcessCheck where a failed assertion leaves self._lock taken, as with
\* acquire() and release() in place of the with statement.
ProcessCheck_KeepsLock(p) ==
    /\ prod[p].pc = "check"
    /\ IF prod[p].data = "empty"
       THEN prod' = [prod EXCEPT ![p].pc = "failed", ![p].data = "none"]
       ELSE prod' = [prod EXCEPT
                       ![p].pc = IF release_data THEN "send_data"
                                 ELSE "wait_pickle",
                       ![p].mode = IF release_data THEN "immediate"
                                   ELSE "gated"]
    /\ UNCHANGED <<release_data, pickled_messages, lock, pickle_lock,
                   left_stream, right_stream, hand, nOffer, lastOffer, nDel,
                   overlap, nRelease>>

\* Lines 61-68 and 73-74: the assertion, the conversion, the test of
\* self._release_data (read under _lock only) and, when gated, pickle.dumps.
ProcessCheck(p) ==
    /\ prod[p].pc = "check"
    /\ IF prod[p].data = "empty"
       THEN /\ prod' = [prod EXCEPT ![p].pc = "failed", ![p].data = "none"]
            /\ lock' = NoThread
       ELSE /\ prod' = [prod EXCEPT
                          ![p].pc = IF release_data THEN "send_data"
                                    ELSE "wait_pickle",
                          ![p].mode = IF release_data THEN "immediate"
                                      ELSE "gated"]
            /\ lock' = lock
    /\ UNCHANGED <<release_data, pickled_messages, pickle_lock, left_stream,
                   right_stream, hand, nOffer, lastOffer, nDel, overlap, nRelease>>

\* Line 69.
ProcessSendData(p) ==
    /\ prod[p].pc = "send_data"
    /\ left_stream' = Append(left_stream, Message(prod[p].ts, prod[p].data))
    /\ prod' = [prod EXCEPT ![p].pc = "send_wm"]
    /\ UNCHANGED <<release_data, pickled_messages, lock, pickle_lock,
                   right_stream, hand, nOffer, lastOffer, nDel, overlap, nRelease>>

\* Line 70, and leaving `with self._lock`.
ProcessSendWatermark(p) ==
    /\ prod[p].pc = "send_wm"
    /\ left_stream' = Append(left_stream, WatermarkMessage(prod[p].ts))
    /\ lock' = NoThread
    /\ prod' = [prod EXCEPT ![p].pc = "done", ![p].data = "none"]
    /\ UNCHANGED <<release_data, pickled_messages, pickle_lock, right_stream,
                   hand, nOffer, lastOffer, nDel, overlap, nRelease>>

\* `with self._pickle_lock:` line 75.
ProcessPickleLock(p) ==
    /\ prod[p].pc = "wait_pickle"
    /\ pickle_lock = NoThread
    /\ pickle_lock' = p
    /\ prod' = [prod EXCEPT ![p].pc = "store"]
    /\ UNCHANGED <<release_data, pickled_messages, lock, left_stream,
                   right_stream, hand, nOffer, lastOffer, nDel, overlap, nRelease>>

\* self._pickled_messages[timestamp] = pickled_msg: a dict assignment.
DictSet(m, k, v) ==
    [x \in (DOMAIN m) \cup {k} |-> IF x = k THEN v ELSE m[x]]

\* ProcessStore with lines 76 and 77 swapped: the watermark goes out on the
\* right stream first, the snapshot is stored after it.
ProcessStore_MarkerFirst(p) ==
    /\ prod[p].pc = "store"
    /\ right_stream' = Append(right_stream, WatermarkMessage(prod[p].ts))
    /\ pickle_lock' = NoThread
    /\ prod' = [prod EXCEPT ![p].pc = "send_right"]
    /\ UNCHANGED <<release_data, pickled_messages, lock, left_stream, hand,
                   nOffer, lastOffer, nDel, overlap, nRelease>>

\* Line 76, and leaving `with self._pickle_lock`.
ProcessStore(p) ==
    /\ prod[p].pc = "store"
    /\ pickled_messages' =
           DictSet(pickled_messages, prod[p].ts, Pickle(prod[p].data))
    /\ pickle_lock' = NoThread
    /\ prod' = [prod EXCEPT ![p].pc = "send_right", ![p].data = "none"]
    /\ UNCHANGED <<release_data, lock, left_stream, right_stream, hand,
                   nOffer, lastOffer, nDel, overlap, nRelease>>

\* ProcessSendRight with the watermark sent on the left stream.
ProcessSendRight_Left(p) ==
    /\ prod[p].pc = "send_right"
    /\ left_stream' = Append(left_stream, WatermarkMessage(prod[p].ts))
    /\ lock' = NoThread
    /\ prod' = [prod EXCEPT ![p].pc = "done", ![p].data = "none"]
    /\ UNCHANGED <<release_data, pickled_messages, pickle_lock, right_stream,
                   hand, nOffer, lastOffer, nDel, overlap, nRelease>>

\* Line 77, and leaving `with self._lock`.
ProcessSendRight(p) ==
    /\ prod[p].pc = "send_right"
    /\ right_stream' = Append(right_stream, WatermarkMessage(prod[p].ts))
    /\ lock' = NoThread
    /\ prod' = [prod EXCEPT ![p].pc = "done", ![p].data = "none"]
    /\ UNCHANGED <<release_data, pickled_messages, pickle_lock, left_stream,
                   hand, nOffer, lastOffer, nDel, overlap, nRelease>>

(***************************************************************************)
(* on_watermark                                                            *)
(***************************************************************************)
\* Another on_watermark invocation for the same non-top timestamp is running.
OtherInFlight(h, k) ==
    \E g \in (DOMAIN hand) \ {h} :
        ~HandResting(g) /\ ~hand[g].is_top /\ hand[g].ts = k

\* The runtime invokes on_watermark with context.timestamp: lines 149-150.
WatermarkEnter(h, top, k) ==
    /\ HandResting(h)
    /\ nRelease < MaxReleases
    /\ top => k = 0
    /\ ~top => k \in GateKeys
    /\ hand' = [hand EXCEPT ![h] = [pc |-> "dispatch", is_top |-> top,
                                    ts |-> k, msg |-> <<>>, err |-> "none"]]
    /\ nRelease' = nRelease + 1
    /\ overlap' = IF ~top /\ OtherInFlight(h, k)
                  THEN [overlap EXCEPT ![k] = TRUE] ELSE overlap
    /\ UNCHANGED <<release_data, pickled_messages, lock, pickle_lock,
                   left_stream, right_stream, prod, nOffer, lastOffer, nDel>>

\* WatermarkTop with the flag flipped instead of set.
WatermarkTop_Toggle(h) ==
    /\ hand[h].pc = "dispatch"
    /\ hand[h].is_top
    /\ release_data' = ~release_data
    /\ hand' = [hand EXCEPT ![h].pc = "done"]
    /\ UNCHANGED <<pickled_messages, lock, pickle_lock, left_stream,
                   right_stream, prod, nOffer, lastOffer, nDel, overlap,
                   nRelease>>

\* Lines 151-153: the top timestamp.
WatermarkTop(h) ==
    /\ hand[h].pc = "dispatch"
    /\ hand[h].is_top
    /\ release_data' = TRUE
    /\ hand' = [hand EXCEPT ![h].pc = "done"]
    /\ UNCHANGED <<pickled_messages, lock, pickle_lock, left_stream,
                   right_stream, prod, nOffer, lastOffer, nDel, overlap, nRelease>>

\* WatermarkLookup with dict.get in place of the subscript: no KeyError, and
\* the watermark still goes out.
WatermarkLookup_Get(h) ==
    /\ hand[h].pc = "dispatch"
    /\ ~hand[h].is_top
    /\ IF hand[h].ts \in DOMAIN pickled_messages
       THEN hand' = [hand EXCEPT ![h].pc = "send_pickled",
                                 ![h].msg = pickled_messages[hand[h].ts]]
       ELSE hand' = [hand EXCEPT ![h].pc = "send_wm"]
    /\ UNCHANGED <<release_data, pickled_messages, lock, pickle_lock,
                   left_stream, right_stream, prod, nOffer, lastOffer, nDel,
                   overlap, nRelease>>

\* Line 157: self._pickled_messages[context.timestamp], evaluated before the
\* call of send_pickled and without _pickle_lock; a KeyError when absent.
WatermarkLookup(h) ==
    /\ hand[h].pc = "dispatch"
    /\ ~hand[h].is_top
    /\ IF hand[h].ts \in DOMAIN pickled_messages
       THEN hand' = [hand EXCEPT ![h].pc = "send_pickled",
                                 ![h].msg = pickled_messages[hand[h].ts]]
       ELSE hand' = [hand EXCEPT ![h].pc = "failed", ![h].err = "lookup"]
    /\ UNCHANGED <<release_data, pickled_messages, lock, pickle_lock,
                   left_stream, right_stream, prod, nOffer, lastOffer, nDel, overlap,
                   nRelease>>

\* Lines 156-157: left_write_stream.send_pickled.
WatermarkSendPickled(h) ==
    /\ hand[h].pc = "send_pickled"
    /\ left_stream' =
           Append(left_stream, PickledMessage(hand[h].ts, hand[h].msg))
    /\ hand' = [hand EXCEPT ![h].pc = "send_wm", ![h].msg = <<>>]
    /\ UNCHANGED <<release_data, pickled_messages, lock, pickle_lock,
                   right_stream, prod, nOffer, lastOffer, nDel, overlap, nRelease>>

\* Line 161.
WatermarkSendWatermark(h) ==
    /\ hand[h].pc = "send_wm"
    /\ left_stream' = Append(left_stream, WatermarkMessage(hand[h].ts))
    /\ hand' = [hand EXCEPT ![h].pc = "wait_pickle"]
    /\ UNCHANGED <<release_data, pickled_messages, lock, pickle_lock,
                   right_stream, prod, nOffer, lastOffer, nDel, overlap, nRelease>>

\* `with self._pickle_lock:` line 162.
WatermarkPickleLock(h) ==
    /\ hand[h].pc = "wait_pickle"
    /\ pickle_lock = NoThread
    /\ pickle_lock' = h
    /\ hand' = [hand EXCEPT ![h].pc = "del"]
    /\ UNCHANGED <<release_data, pickled_messages, lock, left_stream,
                   right_stream, prod, nOffer, lastOffer, nDel, overlap, nRelease>>

\* DictDel that removes nothing.
DictDel_Keep(m, k) == m

\* del d[k] of a present key.
DictDel(m, k) == [x \in (DOMAIN m) \ {k} |-> m[x]]

\* Line 163, and leaving `with self._pickle_lock`; a KeyError when absent.
WatermarkDel(h) ==
    /\ hand[h].pc = "del"
    /\ IF hand[h].ts \in DOMAIN pickled_messages
       THEN /\ pickled_messages' = DictDel(pickled_messages, hand[h].ts)
            /\ nDel' = [nDel EXCEPT ![hand[h].ts] = @ + 1]
            /\ hand' = [hand EXCEPT ![h].pc = "done"]
       ELSE /\ UNCHANGED <<pickled_messages, nDel>>
            /\ hand' = [hand EXCEPT ![h].pc = "failed", ![h].err = "del"]
    /\ pickle_lock' = NoThread
    /\ UNCHANGED <<release_data, lock, left_stream, right_stream, prod,
                   nOffer, lastOffer, overlap, nRelease>>

(***************************************************************************)
(* PredictionEvalOperator                                                  *)
(***************************************************************************)
EvalKeys == 1..MaxKey
\* The classes of object on_data can be handed.
DataTypes == {"Pose", "ObstacleTrajectoriesMessageTuple", "List", "other"}

\* A message as delivered: the timestamp it was sent with and the frame its
\* coordinates are in.
Record(type, k) == [type |-> type, key |-> k, frame |-> "ego"]

NoCall == [op |-> "none", result |-> "none", scored |-> <<>>]

EvalInit ==
    /\ prediction_msgs = <<>>
    /\ tracking_msgs = <<>>
    /\ pose_msgs = <<>>
    /\ predictions = <<>>
    /\ lastWm = 0
    /\ nWm = 0
    /\ anyErr = FALSE
    /\ nScore = 0
    /\ last = NoCall
    /\ consumed = <<>>

\* DequeAppend on a deque built without maxlen.
DequeAppend_Unbounded(q, x, n) == Append(q, x)

\* deque.append on a deque(maxlen=n): a full deque drops its leftmost item.
DequeAppend(q, x, n) ==
    IF n = 0 THEN q
    ELSE IF Len(q) = n THEN Append(Tail(q), x)
    ELSE Append(q, x)

\* PopLeft that reads the leftmost item and leaves it in place.
PopLeft_Peek(q) == q

\* What deque.popleft leaves behind.
PopLeft(q) == Tail(q)

\* to_world_coordinates(vehicle_transform): the record, no longer in the
\* frame of the ego vehicle. (The coordinates themselves are not modelled.)
ToWorld(r, pose) == [r EXCEPT !.frame = "world"]

\* What the runtime can deliver on a stream whose buffer is q: a message of
\* a timestamp whose watermark is still to come, later than the messages the
\* stream delivered before it.
Deliverable(q, k) ==
    /\ k > lastWm
    /\ \A i \in DOMAIN q : q[i].key < k

\* on_data: the isinstance dispatch of lines 49-56 and the three appends.
OnData(type, k) ==
    /\ \/ /\ type = "Pose"
          /\ Deliverable(pose_msgs, k)
          /\ pose_msgs' = Append(pose_msgs, Record(type, k))
          /\ UNCHANGED <<tracking_msgs, prediction_msgs>>
          /\ last' = [NoCall EXCEPT !.op = "on_data", !.result = "ok"]
       \/ /\ type = "ObstacleTrajectoriesMessageTuple"
          /\ Deliverable(tracking_msgs, k)
          /\ tracking_msgs' = Append(tracking_msgs, Record(type, k))
          /\ UNCHANGED <<pose_msgs, prediction_msgs>>
          /\ last' = [NoCall EXCEPT !.op = "on_data", !.result = "ok"]
       \/ /\ type = "List"
          /\ Deliverable(prediction_msgs, k)
          /\ prediction_msgs' = Append(prediction_msgs, Record(type, k))
          /\ UNCHANGED <<pose_msgs, tracking_msgs>>
          /\ last' = [NoCall EXCEPT !.op = "on_data", !.result = "ok"]
       \/ /\ type = "other"
          /\ k > lastWm
          /\ UNCHANGED <<pose_msgs, tracking_msgs, prediction_msgs>>
          /\ last' = [NoCall EXCEPT !.op = "on_data",
                                    !.result = "ValueError"]
    /\ UNCHANGED <<predictions, lastWm, nWm, anyErr, nScore, consumed>>

\* WindowFull one batch early.
WindowFull_Early == Len(predictions) >= W - 1

\* Line 80: len(self._predictions) == prediction_num_future_steps.
WindowFull == Len(predictions) = W

\* ScoredBatch taken from the right end, self._predictions[-1].
ScoredBatch_Newest == predictions[Len(predictions)]

\* Line 92: the batch handed to _calculate_metrics, self._predictions[0].
ScoredBatch == predictions[1]

\* MetricsCall with the pose that arrived last instead of the one taken from
\* the left of the buffer.
MetricsCall_NewestPose(k, tracking_msg, pose) ==
    LET newest == pose_msgs[Len(pose_msgs)]
    IN  [ts |-> k,
         ground |-> ToWorld(tracking_msg, newest),
         pose |-> newest,
         batch |-> ScoredBatch]

\* Lines 83-92: the arguments of _calculate_metrics, the tracking message
\* in world coordinates and the leftmost batch of the window.
MetricsCall(k, tracking_msg, pose) ==
    [ts |-> k,
     ground |-> ToWorld(tracking_msg, pose),
     pose |-> pose,
     batch |-> ScoredBatch]

\* OnWatermarkTop without the early return of line 71: the top watermark
\* goes on to the three popleft calls.
OnWatermarkTop_FallThrough ==
    /\ last' = [NoCall EXCEPT !.op = "on_watermark", !.result = "top"]
    /\ tracking_msgs' = IF tracking_msgs = <<>> THEN <<>>
                        ELSE Tail(tracking_msgs)
    /\ prediction_msgs' = IF prediction_msgs = <<>> THEN <<>>
                          ELSE Tail(prediction_msgs)
    /\ pose_msgs' = IF pose_msgs = <<>> THEN <<>> ELSE Tail(pose_msgs)
    /\ UNCHANGED <<predictions, lastWm, nWm, anyErr, nScore, consumed>>

\* on_watermark for the top timestamp: lines 70-71.
OnWatermarkTop ==
    /\ last' = [NoCall EXCEPT !.op = "on_watermark", !.result = "top"]
    /\ UNCHANGED <<prediction_msgs, tracking_msgs, pose_msgs, predictions,
                   lastWm, nWm, anyErr, nScore, consumed>>

\* on_watermark for timestamp k: lines 72-98. The three popleft calls run
\* in the order tracking, prediction, pose, and the first one on an empty
\* deque raises IndexError. The obstacles are not modelled here: whether
\* _calculate_metrics raises on them (an unknown label, an obstacle without
\* ground trajectory) is the input `raises`; when it does, line 98 is not
\* reached.
OnWatermark(k, raises) ==
    /\ k > lastWm
    /\ lastWm' = k
    /\ nWm' = nWm + 1
    /\ IF tracking_msgs = <<>>
       THEN /\ UNCHANGED <<tracking_msgs, prediction_msgs, pose_msgs,
                           predictions, nScore>>
            /\ anyErr' = TRUE
            /\ ~raises
            /\ last' = [NoCall EXCEPT !.op = "on_watermark",
                                      !.result = "IndexError"]
       ELSE IF prediction_msgs = <<>>
       THEN /\ tracking_msgs' = PopLeft(tracking_msgs)
            /\ UNCHANGED <<prediction_msgs, pose_msgs, predictions, nScore>>
            /\ anyErr' = TRUE
            /\ ~raises
            /\ last' = [NoCall EXCEPT !.op = "on_watermark",
                                      !.result = "IndexError"]
       ELSE IF pose_msgs = <<>>
       THEN /\ tracking_msgs' = PopLeft(tracking_msgs)
            /\ prediction_msgs' = PopLeft(prediction_msgs)
            /\ UNCHANGED <<pose_msgs, predictions, nScore>>
            /\ anyErr' = TRUE
            /\ ~raises
            /\ last' = [NoCall EXCEPT !.op = "on_watermark",
                                      !.result = "IndexError"]
       ELSE LET tracking_msg == Head(tracking_msgs)
                prediction_msg == Head(prediction_msgs)
                pose == Head(pose_msgs)
                call == <<MetricsCall(k, tracking_msg, pose)>>
            IN  /\ tracking_msgs' = PopLeft(tracking_msgs)
                /\ prediction_msgs' = PopLeft(prediction_msgs)
                /\ pose_msgs' = PopLeft(pose_msgs)
                /\ IF WindowFull /\ predictions = <<>>
                   THEN \* W = 0: self._predictions[0] of an empty deque
                        /\ UNCHANGED <<predictions, nScore>>
                        /\ anyErr' = TRUE
                        /\ ~raises
                        /\ last' = [NoCall EXCEPT !.op = "on_watermark",
                                       !.result = "IndexError"]
                   ELSE IF WindowFull /\ raises
                   THEN /\ UNCHANGED predictions
                        /\ nScore' = nScore + 1
                        /\ anyErr' = TRUE
                        /\ last' = [NoCall EXCEPT !.op = "on_watermark",
                                       !.result = "ValueError",
                                       !.scored = call]
                   ELSE /\ ~raises
                        /\ predictions' =
                              DequeAppend(predictions,
                                          ToWorld(prediction_msg, pose), W)
                        /\ nScore' = IF WindowFull THEN nScore + 1
                                     ELSE nScore
                        /\ anyErr' = anyErr
                        /\ last' = [NoCall EXCEPT !.op = "on_watermark",
                                       !.result = "ok",
                                       !.scored = IF WindowFull THEN call
                                                  ELSE <<>>]
    /\ consumed' = IF anyErr' THEN <<>>
                   ELSE Append(consumed, Head(prediction_msgs))

(***************************************************************************)
(* DetectionDecayOperator                                                  *)
(***************************************************************************)
DecayTimes == 0..MaxTime

\* The obstacles of a message: a label and a bounding box each.
Obstacle(label, box) == [label |-> label, bounding_box |-> box]
\* data['obstacles'], a list: no obstacle, a person, a vehicle, or both.
ObstacleLists ==
    {<<>>, <<Obstacle("person", "box1")>>, <<Obstacle("vehicle", "box2")>>,
     <<Obstacle("vehicle", "box2"), Obstacle("person", "box1")>>}

\* context.timestamp.coordinates for game time k: one coordinate, or (what
\* the assertion of line 29 rejects) two.
Coordinates(k) == {<<k>>, <<k, 0>>}

NoObserve == [game_time |-> -1, bboxes |-> <<>>, result |-> "none",
              evicted |-> 0]

DecayInit ==
    /\ ground_bboxes = <<>>
    /\ decay_sent = <<>>
    /\ decay_last = NoObserve
    /\ nObserve = 0
    /\ monotone = TRUE

\* Obstacle.is_person()
IsPerson(o) == o.label = "person"

\* Lines 31-35: the bounding boxes of the persons, in the order of the list.
RECURSIVE PersonBoxes(_)
PersonBoxes(obstacles) ==
    IF obstacles = <<>> THEN <<>>
    ELSE IF IsPerson(Head(obstacles))
         THEN <<Head(obstacles).bounding_box>> \o PersonBoxes(Tail(obstacles))
         ELSE PersonBoxes(Tail(obstacles))

\* PopOld with >= in place of >: an entry as old as the limit goes too.
RECURSIVE PopOld_Eager(_, _)
PopOld_Eager(q, game_time) ==
    IF Len(q) > 0 /\ game_time - q[1][1] >= DecayMaxLatency
    THEN PopOld_Eager(Tail(q), game_time)
    ELSE q

\* Lines 38-41: popleft while the leftmost entry is older than the limit.
RECURSIVE PopOld(_, _)
PopOld(q, game_time) ==
    IF Len(q) > 0 /\ game_time - q[1][1] > DecayMaxLatency
    THEN PopOld(Tail(q), game_time)
    ELSE q

\* Lines 50-56: the mean over the nine thresholds of the precision of bboxes
\* against old_bboxes. The value is not computed here, only what it is of.
AvgPrecision(bboxes, old_bboxes) == <<"avg_precision", bboxes, old_bboxes>>

\* Compared with the test of line 48 dropped: every entry gives a message.
RECURSIVE Compared_All(_, _, _)
Compared_All(q, game_time, bboxes) ==
    IF q = <<>> THEN <<>>
    ELSE <<[ts |-> game_time, latency |-> game_time - q[1][1],
            avg_precision |-> AvgPrecision(bboxes, q[1][2])]>>
         \o Compared_All(Tail(q), game_time, bboxes)

\* Lines 44-64: the messages sent for the entries of q, from the left; an
\* entry gives one unless its boxes and the new ones are both empty.
RECURSIVE Compared(_, _, _)
Compared(q, game_time, bboxes) ==
    IF q = <<>> THEN <<>>
    ELSE (IF Len(bboxes) > 0 \/ Len(q[1][2]) > 0
          THEN <<[ts |-> game_time, latency |-> game_time - q[1][1],
                  avg_precision |-> AvgPrecision(bboxes, q[1][2])]>>
          ELSE <<>>)
         \o Compared(Tail(q), game_time, bboxes)

\* BufferNewBoxes that leaves an empty list of boxes out of the window.
BufferNewBoxes_SkipEmpty(q, game_time, bboxes) ==
    IF bboxes = <<>> THEN q ELSE Append(q, <<game_time, bboxes>>)

\* Line 67: the pair is appended on the right of the deque.
BufferNewBoxes(q, game_time, bboxes) == Append(q, <<game_time, bboxes>>)

\* on_data of the decay operator, lines 26-67.
DecayOnData(coordinates, obstacles) ==
    /\ nObserve < MaxObserve
    /\ nObserve' = nObserve + 1
    /\ IF Len(coordinates) # 1
       THEN /\ decay_last' = [NoObserve EXCEPT !.result = "AssertionError"]
            /\ decay_sent' = <<>>
            /\ UNCHANGED <<ground_bboxes, monotone>>
       ELSE LET game_time == coordinates[1]
                bboxes == PersonBoxes(obstacles)
                kept == PopOld(ground_bboxes, game_time)
            IN  /\ decay_sent' = Compared(kept, game_time, bboxes)
                /\ ground_bboxes' = BufferNewBoxes(kept, game_time, bboxes)
                /\ monotone' = (monotone /\
                                 \A i \in DOMAIN ground_bboxes :
                                    ground_bboxes[i][1] <= game_time)
                /\ decay_last' = [game_time |-> game_time,
                                  bboxes |-> bboxes, result |-> "ok",
                                  evicted |-> Len(ground_bboxes) - Len(kept)]

(***************************************************************************)
(* PredictionEvalOperator._calculate_metrics                               *)
(***************************************************************************)
\* transform.location of a trajectory point: x, y and the altitude z.
LocA == <<0, 0, 7>>
LocB == <<1, 2, 7>>
LocC == <<2, 4, 7>>
\* A trajectory is a list of points, oldest first: none, one, or two (at
\* rest, or moving).
Trajectories ==
    {<<>>, <<LocA>>, <<LocA, LocA>>, <<LocB, LocB>>, <<LocA, LocB>>,
     <<LocB, LocC>>}
\* The labels an obstacle prediction can carry.
Labels == {"vehicle", "person", "other"}
Classes == {"vehicle", "person"}
Metrics == <<"MSD", "ADE", "FDE">>
ScoreErrors == {"KeyError", "ValueError", "IndexError", "ZeroDivisionError"}

\* Lines 124-132: Vector2D(location.x, location.y), the altitude dropped.
Vector2D(loc) == <<loc[1], loc[2]>>
ToVectors(trajectory) == [i \in DOMAIN trajectory |-> Vector2D(trajectory[i])]

Abs(a) == IF a < 0 THEN -a ELSE a
\* Vector2D.l2_distance, as a term of the mean squared distance: the squared
\* Euclidean distance of two points.
L2Distance(a, b) == (a[1] - b[1]) * (a[1] - b[1]) + (a[2] - b[2]) * (a[2] - b[2])
\* Vector2D.l1_distance: the Manhattan distance of two points.
L1Distance(a, b) == Abs(a[1] - b[1]) + Abs(a[2] - b[2])

\* Numbers: the floats of the code are kept as fractions in lowest terms.
RECURSIVE Gcd(_, _)
Gcd(a, b) == IF b = 0 THEN a ELSE Gcd(b, a % b)
Frac(n, d) == LET g == Gcd(n, d) IN <<n \div g, d \div g>>
Zero == Frac(0, 1)
Plus(a, b) == Frac(a[1] * b[2] + b[1] * a[2], a[2] * b[2])

\* A call that can raise gives <<>> when it raises and <<v>> when it
\* returns v.
Raised == <<>>
Returned(v) == <<v>>

\* Mean without the division.
Mean_NoDivide(total, n) ==
    IF n = 0 THEN Raised ELSE Returned(total)

\* total /= n, lines 149-150 and 168-193: a float divided by an int, a
\* ZeroDivisionError when the int is 0.
Mean(total, n) ==
    IF n = 0 THEN Raised ELSE Returned(Frac(total[1], total[2] * n))

\* NegIndex that reads the origin past the left end of the list.
NegIndex_Padded(list, idx) ==
    IF idx > Len(list) THEN Returned(<<0, 0>>)
    ELSE Returned(list[Len(list) - idx + 1])

\* list[-idx] for idx >= 1: counted from the right end, an IndexError past
\* the left end.
NegIndex(list, idx) ==
    IF idx > Len(list) THEN Raised
    ELSE Returned(list[Len(list) - idx + 1])

\* ClassOf with every label that is not a vehicle taken as a person.
ClassOf_ElsePerson(label) ==
    IF label = "vehicle" THEN "vehicle" ELSE "person"

\* Lines 133-139 and 152-162: is_vehicle(), else is_person(), else the
\* ValueError.
ClassOf(label) ==
    IF label = "vehicle" THEN "vehicle"
    ELSE IF label = "person" THEN "person"
    ELSE "ValueError"

\* Lines 144 and 147: the l2_distance or the l1_distance of two points.
Distance(norm, a, b) ==
    IF norm = "l2" THEN L2Distance(a, b) ELSE L1Distance(a, b)

\* Lines 140-148: the sum over idx = 1 .. len(predicted) of the distance
\* of predicted[-idx] and ground[-idx]; the IndexError of ground[-idx] when
\* ground is the shorter list.
RECURSIVE SumDistances(_, _, _, _)
SumDistances(norm, predicted, ground, idx) ==
    IF idx > Len(predicted) THEN Returned(Zero)
    ELSE LET p == NegIndex(predicted, idx)
             g == NegIndex(ground, idx)
             rest == SumDistances(norm, predicted, ground, idx + 1)
         IN  IF p = Raised \/ g = Raised \/ rest = Raised THEN Raised
             ELSE Returned(Plus(Frac(Distance(norm, p[1], g[1]), 1), rest[1]))

\* ground_trajectories[id] for the obstacles of a batch: a KeyError, or the
\* trajectory the dict holds.
GroundLookups == {Raised} \cup {Returned(t) : t \in Trajectories}

NoEntity == [label |-> "none", predicted |-> <<>>, ground |-> Raised,
             result |-> "none", msd |-> <<>>, ade |-> <<>>, fde |-> <<>>]

\* Lines 124-151 for one obstacle prediction of the batch: its label, its
\* predicted trajectory and the outcome of ground_trajectories[id].
ScoreEntity(label, predicted_trajectory, ground) ==
    LET e == [NoEntity EXCEPT !.label = label,
                              !.predicted = predicted_trajectory,
                              !.ground = ground]
    IN
    IF ground = Raised THEN [e EXCEPT !.result = "KeyError"]
    ELSE IF ClassOf(label) = "ValueError"
    THEN [e EXCEPT !.result = "ValueError"]
    ELSE
    LET predicted == ToVectors(predicted_trajectory)
        ground_trajectory == ToVectors(ground[1])
        l2 == SumDistances("l2", predicted, ground_trajectory, 1)
        l1 == SumDistances("l1", predicted, ground_trajectory, 1)
        n == Len(predicted)
        last_p == NegIndex(predicted, 1)
        last_g == NegIndex(ground_trajectory, 1)
    IN  IF l2 = Raised \/ l1 = Raised
        THEN [e EXCEPT !.result = "IndexError"]
        ELSE IF Mean(l2[1], n) = Raised \/ Mean(l1[1], n) = Raised
        THEN [e EXCEPT !.result = "ZeroDivisionError"]
        ELSE IF last_p = Raised \/ last_g = Raised
        THEN [e EXCEPT !.result = "IndexError"]
        ELSE [e EXCEPT !.result = "ok",
                       !.msd = Mean(l2[1], n)[1],
                       !.ade = Mean(l1[1], n)[1],
                       !.fde = Frac(L1Distance(last_p[1], last_g[1]), 1)]

\* ScoreEntity for every obstacle the model draws, computed once.
EntityScores ==
    [label \in Labels, predicted_trajectory \in Trajectories,
     ground \in GroundLookups |->
        ScoreEntity(label, predicted_trajectory, ground)]

ZeroCounts == [c \in Classes |-> 0]
ZeroSums == [c \in Classes |-> [m \in {"MSD", "ADE", "FDE"} |-> Zero]]

ScoreInit ==
    /\ score_pc = "idle"
    /\ cnt = ZeroCounts
    /\ sums = ZeroSums
    /\ batch = <<>>
    /\ entity = NoEntity
    /\ rows = <<>>
    /\ score_result = "none"
    /\ scored = ZeroCounts
    /\ nPass = 0

\* CountsAtEntry with the counters kept on the operator, so that a pass
\* goes on from what the earlier passes counted.
CountsAtEntry_Running(earlier) == earlier

\* Lines 110 and 116: vehicle_cnt and person_cnt are locals of the pass and
\* start at 0, whatever the earlier passes counted.
CountsAtEntry(earlier) == ZeroCounts

\* _calculate_metrics is entered: lines 109-119.
ScoreBegin ==
    /\ score_pc = "idle"
    /\ nPass < MaxPasses
    /\ nPass' = nPass + 1
    /\ score_pc' = "loop"
    /\ cnt' = CountsAtEntry(scored)
    /\ sums' = ZeroSums
    /\ batch' = <<>>
    /\ entity' = NoEntity
    /\ rows' = <<>>
    /\ score_result' = "running"
    /\ UNCHANGED scored

\* One iteration of the loop of line 121, lines 124-162. The batch is read
\* one obstacle prediction at a time, so the obstacle is an input of the
\* iteration; an exception ends the pass before anything is logged, and
\* the locals end with the pass.
ScoreObstacle(label, predicted_trajectory, ground) ==
    /\ score_pc = "loop"
    /\ Len(batch) < MaxBatch
    /\ \E e \in {EntityScores[label, predicted_trajectory, ground]},
          c \in {ClassOf(label)} :
        /\ batch' = Append(batch, label)
        /\ entity' = e
        /\ cnt' = IF e.result # "ok" THEN ZeroCounts
                  ELSE [cnt EXCEPT ![c] = @ + 1]
        /\ sums' = IF e.result # "ok" THEN ZeroSums
                   ELSE [sums EXCEPT ![c]["MSD"] = Plus(@, e.msd),
                                     ![c]["ADE"] = Plus(@, e.ade),
                                     ![c]["FDE"] = Plus(@, e.fde)]
        /\ score_pc' = IF e.result = "ok" THEN "loop" ELSE "idle"
        /\ score_result' = IF e.result = "ok" THEN score_result
                           ELSE e.result
        /\ UNCHANGED <<rows, scored, nPass>>

\* HasRows that wants more than one obstacle.
HasRows_MoreThanOne(n) == n > 1

\* Lines 167, 177 and 190: a scope is logged when it counted an obstacle.
HasRows(n) == n > 0

\* The three csv rows of a scope, MSD, ADE and FDE: the sums of the scope
\* over its count. (count is not a column of the row: it is the divisor.)
ScopeRows(scope, total, n) ==
    IF HasRows(n)
    THEN [i \in 1..3 |-> [scope |-> scope, metric |-> Metrics[i],
                          value |-> Mean(total[Metrics[i]], n)[1],
                          count |-> n]]
    ELSE <<>>

\* Lines 164-202, after the loop: the rows of all actors, of the persons
\* and of the vehicles, in that order; the sums of a logged class are
\* divided in place (person_msd /= person_cnt), and the locals end with the
\* pass.
ScoreLog ==
    LET actor_cnt == cnt["person"] + cnt["vehicle"]
        both == [m \in {"MSD", "ADE", "FDE"} |->
                    Plus(sums["person"][m], sums["vehicle"][m])]
    IN  /\ score_pc = "loop"
        /\ rows' = ScopeRows("all", both, actor_cnt)
                    \o ScopeRows("person", sums["person"], cnt["person"])
                    \o ScopeRows("vehicle", sums["vehicle"], cnt["vehicle"])
        /\ score_pc' = "idle"
        /\ score_result' = "ok"
        /\ sums' = ZeroSums
        /\ cnt' = ZeroCounts
        /\ scored' = [c \in Classes |-> scored[c] + cnt[c]]
        /\ UNCHANGED <<batch, entity, nPass>>

(***************************************************************************)
(* The specifications: one operator runs, the others rest.                 *)
(***************************************************************************)
Init == GateInit /\ EvalInit /\ DecayInit /\ ScoreInit

GateNext ==
    \/ \E p \in DOMAIN prod, k \in GateKeys, d \in RawData :
          ProcessEnter(p, k, d) /\ UNCHANGED notGateVars
    \/ \E p \in DOMAIN prod : ProcessLock(p) /\ UNCHANGED notGateVars
    \/ \E p \in DOMAIN prod : ProcessCheck(p) /\ UNCHANGED notGateVars
    \/ \E p \in DOMAIN prod : ProcessSendData(p) /\ UNCHANGED notGateVars
    \/ \E p \in DOMAIN prod : ProcessSendWatermark(p) /\ UNCHANGED notGateVars
    \/ \E p \in DOMAIN prod : ProcessPickleLock(p) /\ UNCHANGED notGateVars
    \/ \E p \in DOMAIN prod : ProcessStore(p) /\ UNCHANGED notGateVars
    \/ \E p \in DOMAIN prod : ProcessSendRight(p) /\ UNCHANGED notGateVars
    \/ \E h \in DOMAIN hand, k \in GateKeys :
          WatermarkEnter(h, FALSE, k) /\ UNCHANGED notGateVars
    \/ \E h \in DOMAIN hand :
          WatermarkEnter(h, TRUE, 0) /\ UNCHANGED notGateVars
    \/ \E h \in DOMAIN hand : WatermarkTop(h) /\ UNCHANGED notGateVars
    \/ \E h \in DOMAIN hand : WatermarkLookup(h) /\ UNCHANGED notGateVars
    \/ \E h \in DOMAIN hand : WatermarkSendPickled(h) /\ UNCHANGED notGateVars
    \/ \E h \in DOMAIN hand :
          WatermarkSendWatermark(h) /\ UNCHANGED notGateVars
    \/ \E h \in DOMAIN hand : WatermarkPickleLock(h) /\ UNCHANGED notGateVars
    \/ \E h \in DOMAIN hand : WatermarkDel(h) /\ UNCHANGED notGateVars

EvalNext ==
    \/ \E type \in DataTypes, k \in EvalKeys :
          OnData(type, k) /\ UNCHANGED notEvalVars
    \/ OnWatermarkTop /\ UNCHANGED notEvalVars
    \/ \E k \in EvalKeys, raises \in BOOLEAN :
          OnWatermark(k, raises) /\ UNCHANGED notEvalVars

DecayNext ==
    \E k \in DecayTimes : \E coordinates \in Coordinates(k) :
       \E obstacles \in ObstacleLists :
          DecayOnData(coordinates, obstacles) /\ UNCHANGED notDecayVars

ScoreNext ==
    \/ ScoreBegin /\ UNCHANGED notScoreVars
    \/ \E label \in Labels, predicted_trajectory \in Trajectories,
          ground \in GroundLookups :
          ScoreObstacle(label, predicted_trajectory, ground)
          /\ UNCHANGED notScoreVars
    \/ ScoreLog /\ UNCHANGED notScoreVars

SpecGate == Init /\ [][GateNext]_vars
SpecEval == Init /\ [][EvalNext]_vars
SpecDecay == Init /\ [][DecayNext]_vars
SpecScore == Init /\ [][ScoreNext]_vars

\* The gate with process_point_clouds running on two threads at once, which
\* self._lock (line 60) is there for.
ConcurrentProducers == {"p1", "p2"}

ConcurrentInit ==
    /\ release_data = FALSE
    /\ pickled_messages = <<>>
    /\ lock = NoThread
    /\ pickle_lock = NoThread
    /\ left_stream = <<>>
    /\ right_stream = <<>>
    /\ prod = [p \in ConcurrentProducers |-> ProdIdle]
    /\ hand = [h \in Handlers |-> HandIdle]
    /\ nOffer = [k \in GateKeys |-> 0]
    /\ lastOffer = [k \in GateKeys |-> "none"]
    /\ nDel = [k \in GateKeys |-> 0]
    /\ overlap = [k \in GateKeys |-> FALSE]
    /\ nRelease = 0
    /\ EvalInit /\ DecayInit /\ ScoreInit

\* A step of thread p inside process_point_clouds, lines 60-77.
ProducerStep(p) ==
    \/ ProcessLock(p) \/ ProcessCheck(p) \/ ProcessSendData(p)
    \/ ProcessSendWatermark(p) \/ ProcessPickleLock(p) \/ ProcessStore(p)
    \/ ProcessSendRight(p)

\* A step of thread h inside on_watermark, lines 150-163.
HandlerStep(h) ==
    \/ WatermarkTop(h) \/ WatermarkLookup(h) \/ WatermarkSendPickled(h)
    \/ WatermarkSendWatermark(h) \/ WatermarkPickleLock(h)
    \/ WatermarkDel(h)

\* The scheduler runs every thread that can run. A behaviour has finitely
\* many callbacks, so a lock a thread waits for is free for good in the end
\* unless its holder is stuck: weak fairness is all the waiting thread
\* needs. When a callback is invoked is up to the simulator and the
\* runtime: no fairness there.
GateFairness ==
    /\ \A p \in ConcurrentProducers :
          WF_vars(ProducerStep(p) /\ UNCHANGED notGateVars)
    /\ \A h \in Handlers :
          WF_vars(HandlerStep(h) /\ UNCHANGED notGateVars)

SpecGateFair == ConcurrentInit /\ [][GateNext]_vars /\ GateFairness

(***************************************************************************)
(* Properties of the release gate (CarlaLidarDriverOperator).               *)
(***************************************************************************)
\* The payload messages for timestamp k that a stream carries.
DataIndices(stream, k) ==
    {i \in DOMAIN stream : stream[i].kind = "data" /\ stream[i].ts = k}

\* on_watermark(k) has looked its snapshot up and not yet finished.
PastLookup(h, k) ==
    /\ ~hand[h].is_top
    /\ hand[h].ts = k
    /\ hand[h].pc \in {"send_pickled", "send_wm", "wait_pickle", "del"}

\* Thread t took a step of its callback.
ProdStepped(p) == prod'[p] # prod[p]
HandStepped(h) == hand'[h] # hand[h]

\* C1: a key offered once, whose on_watermark invocations do not overlap, has
\* its payload (the offered point cloud) on the left stream at most once; once
\* a release of it has deleted the snapshot the payload is there exactly once,
\* the snapshot is gone and no later release of the key gets past the lookup
\* (it fails there with a KeyError, having sent nothing).
C1_ReleaseOnceThenMissing ==
    \A k \in GateKeys :
         (nOffer[k] = 1 /\ ~overlap[k]) =>
            /\ Cardinality(DataIndices(left_stream, k)) <= 1
            /\ \A i \in DataIndices(left_stream, k) :
                   left_stream[i].data = lastOffer[k]
            /\ nDel[k] <= 1
            /\ nDel[k] = 1 =>
                  /\ Cardinality(DataIndices(left_stream, k)) = 1
                  /\ k \notin DOMAIN pickled_messages
                  /\ \A h \in DOMAIN hand : ~PastLookup(h, k)

\* C1 happens: key 1 was offered once in gated mode, one thread ran every
\* on_watermark so far, a release of key 1 emitted and deleted, and the
\* thread's latest release of key 1 failed at the lookup.
C1_Witness ==
    /\ nOffer[1] = 1 /\ ~overlap[1] /\ nDel[1] = 1 /\ ~release_data
    /\ \E h, g \in DOMAIN hand :
          /\ hand[h].pc = "failed" /\ hand[h].err = "lookup"
          /\ ~hand[h].is_top /\ hand[h].ts = 1
          /\ hand[g].pc = "idle"
    /\ Cardinality(DataIndices(left_stream, 1)) = 1

\* C2: a key offered once has its payload on the left stream at most once
\* and its snapshot deleted at most once, whatever the interleaving of the
\* callbacks (two on_watermark invocations for the key included).
C2_AtMostOnce ==
    \A k \in GateKeys :
        nOffer[k] = 1 =>
            /\ Cardinality(DataIndices(left_stream, k)) <= 1
            /\ nDel[k] <= 1

\* C3: the lookup of on_watermark for a non-top timestamp without snapshot
\* ends the invocation with a KeyError, and sends nothing, and leaves the
\* snapshot map and the mode as they are.
C3_MissingSnapshotFails ==
    [][\A h \in DOMAIN hand :
          ( /\ hand[h].pc = "dispatch"
            /\ ~hand[h].is_top
            /\ hand[h].ts \notin DOMAIN pickled_messages
            /\ HandStepped(h) )
          => /\ hand'[h].pc = "failed"
             /\ hand'[h].err = "lookup"
             /\ UNCHANGED <<left_stream, right_stream, pickled_messages,
                            release_data>>]_vars

\* C3 happens: a release of a key that was forwarded in immediate mode
\* failed at the lookup.
C3_Witness ==
    \E h \in DOMAIN hand :
        /\ hand[h].pc = "failed" /\ hand[h].err = "lookup"
        /\ hand[h].ts \notin DOMAIN pickled_messages
        /\ \E i \in DataIndices(left_stream, hand[h].ts) :
               left_stream[i].via = "send"

\* C4: the gate starts gated; on_watermark for the top timestamp makes it
\* immediate, sends nothing and removes no snapshot; no step of any callback
\* makes an immediate gate gated again.
C4_OneWayToImmediate ==
    /\ release_data = FALSE
    /\ [][ /\ release_data => release_data'
           /\ \A h \in DOMAIN hand :
                (hand[h].pc = "dispatch" /\ hand[h].is_top /\ HandStepped(h))
                => /\ release_data'
                   /\ hand'[h].pc = "done"
                   /\ UNCHANGED <<left_stream, right_stream,
                                  pickled_messages>> ]_vars

\* C4 happens: the top release ran while a snapshot was held, the snapshot
\* is still held, and an offer and a release have run in immediate mode.
C4_Witness ==
    /\ release_data
    /\ DOMAIN pickled_messages # {}
    /\ \E i \in DOMAIN left_stream : left_stream[i].via = "send"
    /\ \E h \in DOMAIN hand : hand[h].pc = "failed" /\ ~hand[h].is_top

\* C5: an invocation of process_point_clouds that read the gate as gated
\* never sends on the left stream, stores exactly its snapshot under its
\* timestamp and then sends its watermark on the right stream; one that read
\* the gate as immediate sends its payload and then its watermark on the left
\* stream, and never touches the right stream or the snapshot map.
C5_OfferByMode ==
    [][\A p \in DOMAIN prod :
          ProdStepped(p) =>
            /\ prod[p].mode = "gated" =>
                 /\ left_stream' = left_stream
                 /\ prod[p].pc = "wait_pickle" =>
                       /\ prod'[p].pc = "store"
                       /\ UNCHANGED <<right_stream, pickled_messages>>
                 /\ prod[p].pc = "store" =>
                       /\ prod'[p].pc = "send_right"
                       /\ right_stream' = right_stream
                       /\ DOMAIN pickled_messages' =
                              DOMAIN pickled_messages \cup {prod[p].ts}
                       /\ Unpickle(pickled_messages'[prod[p].ts]) =
                              lastOffer[prod[p].ts]
                       /\ \A k \in DOMAIN pickled_messages \ {prod[p].ts} :
                              pickled_messages'[k] = pickled_messages[k]
                 /\ prod[p].pc = "send_right" =>
                       /\ prod'[p].pc = "done"
                       /\ right_stream' =
                              Append(right_stream,
                                     WatermarkMessage(prod[p].ts))
                       /\ pickled_messages' = pickled_messages
            /\ prod[p].mode = "immediate" =>
                 /\ UNCHANGED <<right_stream, pickled_messages>>
                 /\ prod[p].pc = "send_data" =>
                       /\ prod'[p].pc = "send_wm"
                       /\ left_stream' =
                              Append(left_stream,
                                     Message(prod[p].ts,
                                             lastOffer[prod[p].ts]))
                 /\ prod[p].pc = "send_wm" =>
                       /\ prod'[p].pc = "done"
                       /\ left_stream' =
                              Append(left_stream,
                                     WatermarkMessage(prod[p].ts))
            /\ (prod[p].pc = "check" /\ prod'[p].pc # "failed") =>
                 /\ prod'[p].mode =
                        IF release_data THEN "immediate" ELSE "gated"
                 /\ prod'[p].pc =
                        IF release_data THEN "send_data" ELSE "wait_pickle"
                 /\ UNCHANGED <<left_stream, right_stream,
                                pickled_messages>>]_vars

\* C5 happens: an offer has completed in immediate mode after an earlier one
\* completed in gated mode.
C5_Witness ==
    /\ \E p \in DOMAIN prod :
          prod[p].pc = "done" /\ prod[p].mode = "immediate"
    /\ right_stream # <<>>
    /\ DOMAIN pickled_messages # {}
    /\ \E i \in DOMAIN left_stream :
          left_stream[i].kind = "wm" /\ left_stream[i].ts = prod["p1"].ts

\* C6: storing a snapshot under a timestamp that still holds one fails and
\* leaves the held snapshot as it is.
C6_DuplicateOfferRejected ==
    [][\A p \in DOMAIN prod :
          ( /\ prod[p].pc = "store"
            /\ prod[p].ts \in DOMAIN pickled_messages
            /\ ProdStepped(p) )
          => /\ prod'[p].pc = "failed"
             /\ pickled_messages' = pickled_messages]_vars

(***************************************************************************)
(* Properties of the prediction evaluator (PredictionEvalOperator).        *)
(***************************************************************************)
Max(a, b) == IF a >= b THEN a ELSE b

\* The step is an on_watermark callback for a non-top timestamp.
WatermarkStep == nWm' # nWm

\* The step removed exactly the oldest record of every buffer.
OneFromEach ==
    /\ tracking_msgs # <<>> /\ tracking_msgs' = Tail(tracking_msgs)
    /\ prediction_msgs # <<>> /\ prediction_msgs' = Tail(prediction_msgs)
    /\ pose_msgs # <<>> /\ pose_msgs' = Tail(pose_msgs)

SomeBufferEmpty ==
    tracking_msgs = <<>> \/ prediction_msgs = <<>> \/ pose_msgs = <<>>

\* Fewer than W batches are in the window.
Warmup == Len(predictions) < W

\* C7: a non-top watermark removes exactly the oldest record of each of the
\* three buffers, or raises because one of them is empty; one that returns
\* normally has removed one record from each.
C7_OneFromEachOrStarved ==
    [][WatermarkStep =>
          /\ \/ OneFromEach
             \/ last'.result = "IndexError" /\ SomeBufferEmpty
          /\ last'.result = "ok" => OneFromEach]_vars

\* C7 happens: a watermark raised on an empty buffer (no scoring pass has
\* run, so the error was not raised by one), and a later one returned
\* normally.
C7_Witness ==
    /\ last.op = "on_watermark" /\ last.result = "ok"
    /\ anyErr /\ nScore = 0

\* C8: when every buffer holds a record of timestamp k as the watermark of k
\* is handled, the three records the watermark consumes are of timestamp k.
C8_TimeAligned ==
    [][\A k \in EvalKeys :
          ( /\ WatermarkStep
            /\ lastWm' = k
            /\ \E i \in DOMAIN tracking_msgs : tracking_msgs[i].key = k
            /\ \E i \in DOMAIN prediction_msgs : prediction_msgs[i].key = k
            /\ \E i \in DOMAIN pose_msgs : pose_msgs[i].key = k )
          => /\ Head(tracking_msgs).key = k
             /\ Head(prediction_msgs).key = k
             /\ Head(pose_msgs).key = k]_vars

\* C9 as stated: after n non-top watermarks without error, _calculate_metrics
\* has run max(0, n - W + 1) times.
C9_ScoreCountAsStated ==
    ~anyErr => nScore = Max(0, nWm - W + 1)

\* C9, amended: after n non-top watermarks without error, _calculate_metrics
\* has run max(0, n - W) times.
C9_ScoreCount ==
    ~anyErr => nScore = Max(0, nWm - W)

\* C9 happens: more than W watermarks were handled without error and a
\* scoring pass has run.
C9_Witness ==
    ~anyErr /\ nWm > W /\ nScore >= 1

\* The window leaves the warm-up only by the append of its W-th batch, in a
\* watermark, and never comes back to it.
WarmupEndsOnce ==
    /\ ~Warmup => ~Warmup'
    /\ (Warmup /\ ~Warmup') =>
          /\ WatermarkStep
          /\ Len(predictions) = W - 1
          /\ prediction_msgs # <<>>
          /\ predictions' =
                Append(predictions,
                       [Head(prediction_msgs) EXCEPT !.frame = "world"])

\* The step ran exactly one scoring pass, on the oldest batch of the window.
ScoredOldest ==
    /\ nScore' = nScore + 1
    /\ Len(last'.scored) = 1
    /\ last'.scored[1].batch = predictions[1]

\* C10 as stated: the warm-up ends once, at the W-th append; past it, every
\* non-top watermark runs exactly one scoring pass, on the oldest batch of
\* the window.
C10_ScoringAsStated ==
    [][ /\ WarmupEndsOnce
        /\ (~Warmup /\ WatermarkStep) => ScoredOldest ]_vars

\* C10, amended: the warm-up ends once, at the W-th append; past it, every
\* non-top watermark that finds a record in each of the three buffers runs
\* exactly one scoring pass, on the oldest batch of the window (one that
\* finds a buffer empty raises before any scoring).
C10_Scoring ==
    [][ /\ WarmupEndsOnce
        /\ (~Warmup /\ WatermarkStep /\ ~SomeBufferEmpty) => ScoredOldest
        /\ (WatermarkStep /\ (Warmup \/ SomeBufferEmpty)) =>
              nScore' = nScore ]_vars

\* C10 happens: the window is full and the latest watermark scored a batch
\* older than the one it left at the head of the window.
C10_Witness ==
    /\ ~Warmup
    /\ last.op = "on_watermark" /\ last.result = "ok"
    /\ Len(last.scored) = 1
    /\ nScore >= 1
    /\ last.scored[1].batch.key < predictions[1].key

\* The step appended batch x to a window that held W batches: the oldest
\* went out, the others kept their order, x is the newest.
EvictsOldest ==
    /\ Len(predictions') = W
    /\ \A i \in 1..(W - 1) : predictions'[i] = predictions[i + 1]

\* The step appended a batch to a window with room: nothing went out.
GrowsByOne ==
    /\ Len(predictions') = Len(predictions) + 1
    /\ \A i \in DOMAIN predictions : predictions'[i] = predictions[i]

\* C11: the window never holds more than W batches; an append to a window
\* of W batches removes exactly the oldest one and keeps the others in
\* their arrival order (an append to a shorter window removes nothing).
C11_WindowBounded ==
    [][ /\ Len(predictions) <= W
        /\ Len(predictions') <= W
        /\ (WatermarkStep /\ last'.result = "ok") =>
              /\ predictions'[Len(predictions')] =
                    [Head(prediction_msgs) EXCEPT !.frame = "world"]
              /\ IF Len(predictions) = W THEN EvictsOldest ELSE GrowsByOne
        /\ ~(WatermarkStep /\ last'.result = "ok") =>
              predictions' = predictions ]_vars

\* C11 happens: two appends were made to a full window (two scoring passes
\* returned), and the window holds W batches, the later ones to the right.
C11_Witness ==
    /\ Len(predictions) = W
    /\ nScore >= 2
    /\ last.op = "on_watermark" /\ last.result = "ok"
    /\ \A i \in 1..(W - 1) : predictions[i].key < predictions[i + 1].key

\* C12: on_watermark for the top timestamp returns without error and
\* changes nothing: the three buffers and the window are as they were and
\* no scoring pass runs (rows are logged by scoring passes only).
C12_TopIgnored ==
    [][(last'.op = "on_watermark" /\ last'.result = "top") =>
          /\ UNCHANGED <<pose_msgs, tracking_msgs, prediction_msgs,
                         predictions>>
          /\ nScore' = nScore
          /\ last'.scored = <<>>
          /\ UNCHANGED <<lastWm, nWm, anyErr>>]_vars

\* C12 happens: the top watermark was handled while every buffer held a
\* record and the window was full.
C12_Witness ==
    /\ last.op = "on_watermark" /\ last.result = "top"
    /\ pose_msgs # <<>> /\ tracking_msgs # <<>> /\ prediction_msgs # <<>>
    /\ Len(predictions) = W

(***************************************************************************)
(* Properties of the decay window (DetectionDecayOperator).                *)
(***************************************************************************)
\* The step is an on_data callback of the decay operator that returned.
ObserveStep == nObserve' # nObserve /\ decay_last'.result = "ok"

\* The entries of window q that are not older than the limit at time k.
Fresh(q, k) == {i \in DOMAIN q : k - q[i][1] <= DecayMaxLatency}

\* C13: with game times that never go down, after on_data at time k every
\* entry of the window is at most decay_max_latency old; the call keeps
\* every entry that is not older than that (one exactly that old too), in
\* order, drops every older one, and sends no message for an older one.
C13_NoStaleEntries ==
    [][(ObserveStep /\ monotone') =>
          LET k == decay_last'.game_time
              gone == Len(ground_bboxes) - Cardinality(Fresh(ground_bboxes, k))
          IN  /\ \A i \in DOMAIN ground_bboxes' :
                     k - ground_bboxes'[i][1] <= DecayMaxLatency
              /\ Len(ground_bboxes') = Len(ground_bboxes) - gone + 1
              /\ \A i \in Fresh(ground_bboxes, k) :
                     /\ i > gone
                     /\ ground_bboxes'[i - gone] = ground_bboxes[i]
              /\ \A j \in DOMAIN decay_sent' :
                     decay_sent'[j].latency <= DecayMaxLatency]_vars

\* C13 happens: game times never went down, the latest call evicted an
\* entry and kept one that is exactly decay_max_latency old.
C13_Witness ==
    /\ monotone
    /\ decay_last.result = "ok"
    /\ decay_last.evicted >= 1
    /\ Len(ground_bboxes) >= 2
    /\ decay_last.game_time - ground_bboxes[1][1] = DecayMaxLatency

\* The entries of q that on_data at boxes S sends a message for.
Paired(q, S) == {i \in DOMAIN q : S # <<>> \/ q[i][2] # <<>>}

\* C14: on_data at time k with boxes S sends exactly one message for each
\* entry left after the eviction whose boxes or S are non-empty, with
\* latency k - age, from the oldest entry on; none for an entry when both
\* are empty, none for the entry it appends; with game times that never go
\* down each latency is within 0..decay_max_latency.
C14_OnePerEntry ==
    [][ObserveStep =>
          LET k == decay_last'.game_time
              S == decay_last'.bboxes
              kept == SubSeq(ground_bboxes', 1, Len(ground_bboxes') - 1)
              idx == Paired(kept, S)
          IN  /\ ground_bboxes'[Len(ground_bboxes')] = <<k, S>>
              /\ Len(decay_sent') = Cardinality(idx)
              /\ \A i \in idx :
                     LET j == Cardinality({h \in idx : h <= i})
                     IN  /\ decay_sent'[j].latency = k - kept[i][1]
                         /\ decay_sent'[j].ts = k
                         /\ decay_sent'[j].avg_precision =
                               AvgPrecision(S, kept[i][2])
              /\ monotone' =>
                     \A j \in DOMAIN decay_sent' :
                        decay_sent'[j].latency \in 0..DecayMaxLatency]_vars

\* C14 happens: the latest call had no boxes, sent messages for two entries
\* of different ages and none for an entry without boxes.
C14_Witness ==
    /\ monotone
    /\ decay_last.result = "ok"
    /\ decay_last.bboxes = <<>>
    /\ Len(decay_sent) = 2
    /\ decay_sent[1].latency > decay_sent[2].latency
    /\ Len(ground_bboxes) = 4

(***************************************************************************)
(* Properties of a scoring pass (_calculate_metrics).                      *)
(***************************************************************************)
\* The step is an iteration of the loop over the batch.
ObstacleStep == Len(batch') = Len(batch) + 1

\* The latest iteration found a ground trajectory for its obstacle.
EntityRead == entity.result # "none" /\ entity.ground # Raised

\* The obstacles of class c in the batch read so far.
InBatch(c) == {i \in DOMAIN batch : batch[i] = c}

\* The rows logged for a scope.
RowsOf(scope) == {i \in DOMAIN rows : rows[i].scope = scope}

\* C15: an obstacle whose predicted and ground trajectories differ in
\* length makes the pass raise, and gets no metric value.
C15_LengthMismatchFails ==
    (EntityRead /\ Len(entity.predicted) # Len(entity.ground[1])) =>
        /\ entity.result \in ScoreErrors
        /\ entity.msd = <<>> /\ entity.ade = <<>> /\ entity.fde = <<>>

\* C16: an obstacle whose predicted or ground trajectory is empty makes the
\* pass raise: it gets no metric value, and the pass ends without a row and
\* without an obstacle scored.
C16_EmptyTrajectoryFails ==
    [][(ObstacleStep /\ entity'.ground # Raised
        /\ (entity'.predicted = <<>> \/ entity'.ground[1] = <<>>)) =>
          /\ entity'.result \in ScoreErrors
          /\ entity'.msd = <<>> /\ entity'.ade = <<>> /\ entity'.fde = <<>>
          /\ score_result' = entity'.result
          /\ score_pc' = "idle"
          /\ scored' = scored
          /\ rows' = <<>>]_vars

\* C16 happens: after an obstacle was scored, a vehicle with a predicted
\* point and an empty ground trajectory ended the pass.
C16_Witness ==
    /\ Len(batch) = 2
    /\ entity.label = "vehicle"
    /\ entity.predicted # <<>>
    /\ entity.ground = Returned(<<>>)
    /\ score_result = "IndexError"

\* C17: every obstacle a pass scores is counted in exactly one class, so
\* the classes' counts add up to the number of obstacles read and the rows
\* of all actors rest on that number; an obstacle that is neither vehicle
\* nor person makes the pass raise, and the pass logs nothing.
C17_ExactlyOneClass ==
    /\ score_pc = "loop" =>
          /\ \A c \in Classes : cnt[c] = Cardinality(InBatch(c))
          /\ cnt["vehicle"] + cnt["person"] = Len(batch)
    /\ score_result = "ok" =>
          /\ \A i \in DOMAIN batch : batch[i] \in Classes
          /\ \A c \in Classes : \A i \in RowsOf(c) :
                rows[i].count = Cardinality(InBatch(c))
    /\ (score_result = "ok" /\ batch # <<>>) =>
          /\ RowsOf("all") # {}
          /\ \A i \in RowsOf("all") : rows[i].count = Len(batch)
    /\ (entity.result # "none" /\ entity.label \notin Classes) =>
          /\ score_result \in ScoreErrors
          /\ score_pc = "idle"
          /\ rows = <<>>

\* C17 happens: an earlier pass counted a vehicle and a person, and in this
\* one an obstacle of another label, read after a scored one, raised.
C17_Witness ==
    /\ scored["vehicle"] >= 1 /\ scored["person"] >= 1
    /\ Len(batch) = 2
    /\ entity.label = "other"
    /\ score_result = "ValueError"

\* Trajectories p and g have one length, and p[i] - g[i] is (dx, dy) at
\* every index.
ConstantOffset(p, g, dx, dy) ==
    /\ Len(p) = Len(g)
    /\ \A i \in DOMAIN p : p[i][1] - g[i][1] = dx /\ p[i][2] - g[i][2] = dy

\* C18: for non-empty trajectories of one length that differ by (dx, dy) at
\* every index, the obstacle's mean squared distance is dx*dx + dy*dy and
\* its average and final displacement errors are |dx| + |dy| (all 0 for
\* identical trajectories).
C18_ConstantOffsetScores ==
    \A dx \in -2..2, dy \in -4..4 :
       (EntityRead /\ entity.predicted # <<>>
        /\ entity.label \in Classes
        /\ ConstantOffset(entity.predicted, entity.ground[1], dx, dy)) =>
          /\ entity.result = "ok"
          /\ entity.msd = Frac(dx * dx + dy * dy, 1)
          /\ entity.ade = Frac(Abs(dx) + Abs(dy), 1)
          /\ entity.fde = Frac(Abs(dx) + Abs(dy), 1)

\* C18 happens: a two-point prediction that moves was scored against a
\* ground trajectory shifted by (1, 2).
C18_Witness ==
    /\ entity.result = "ok"
    /\ Len(entity.predicted) = 2
    /\ entity.predicted[1] # entity.predicted[2]
    /\ ConstantOffset(entity.predicted, entity.ground[1], 1, 2)
    /\ entity.msd = Frac(5, 1)

\* C19 as stated: the count behind the rows of a class is the number of
\* obstacles of that class scored in all passes so far.
C19_RunningTotalsAsStated ==
    score_result = "ok" =>
        \A c \in Classes : \A i \in RowsOf(c) : rows[i].count = scored[c]

\* C19, amended: the sums and counts are locals of one pass: every pass
\* starts them at zero, and the count behind the rows of a class is the
\* number of obstacles of that class in the batch of that pass, whatever
\* the earlier passes scored.
C19_PerPassCounts ==
    [][ /\ nPass' # nPass => (cnt' = ZeroCounts /\ sums' = ZeroSums)
        /\ (score_pc = "loop" /\ score_result' = "ok") =>
              /\ \A c \in Classes : \A i \in RowsOf(c)' :
                     rows'[i].count = Cardinality(InBatch(c))
              /\ \A c \in Classes : cnt[c] = Cardinality(InBatch(c)) ]_vars

\* C19 happens: the second pass logged the rows of a class an earlier pass
\* had scored obstacles of.
C19_Witness ==
    /\ nPass = 2
    /\ score_result = "ok"
    /\ RowsOf("vehicle") # {}
    /\ scored["vehicle"] > Cardinality(InBatch("vehicle"))

\* C20 as stated: a pass that completes logs rows for the vehicles, for the
\* persons and for all actors, whatever the batch.
C20_AllScopesAsStated ==
    score_result = "ok" =>
        \A scope \in {"all", "person", "vehicle"} : RowsOf(scope) # {}

\* C20, amended: a pass that completes logs the three rows (MSD, ADE, FDE)
\* of each class the batch holds an obstacle of and, when the batch is not
\* empty, the three rows of all actors; it logs no row for a class without
\* obstacle, and none at all for an empty batch.
C20_ScopesWithObstacles ==
    score_result = "ok" =>
        /\ \A c \in Classes :
              Cardinality(RowsOf(c)) = IF InBatch(c) # {} THEN 3 ELSE 0
        /\ Cardinality(RowsOf("all")) = IF batch # <<>> THEN 3 ELSE 0
        /\ \A scope \in {"all", "person", "vehicle"} :
              RowsOf(scope) # {} =>
                 {rows[i].metric : i \in RowsOf(scope)} =
                    {"MSD", "ADE", "FDE"}

\* C20 happens: a pass over one vehicle and no person completed, with rows
\* for the vehicles and for all actors only.
C20_Witness ==
    /\ score_result = "ok"
    /\ batch = <<"vehicle">>
    /\ Len(rows) = 6
    /\ RowsOf("person") = {}

(***************************************************************************)
(* Locking and ordering in the release gate (CarlaLidarDriverOperator).    *)
(***************************************************************************)
\* The step of thread h is the lookup of line 157, a read of the map.
MapRead(h) ==
    hand[h].pc = "dispatch" /\ ~hand[h].is_top /\ HandStepped(h)

\* The step of thread h is the del of line 163, a write of the map.
MapDelete(h) == hand[h].pc = "del" /\ HandStepped(h)

\* The step of thread p is the assignment of line 76, a write of the map.
MapWrite(p) == prod[p].pc = "store" /\ ProdStepped(p)

\* C21: every read and every write of self._pickled_messages is made by a
\* thread that holds self._pickle_lock, so no thread reads the map while
\* another one is inside the region, about to write it.
C21_MapAccessLocked ==
    [][ /\ \A h \in DOMAIN hand :
              (MapRead(h) \/ MapDelete(h)) => pickle_lock = h
        /\ \A p \in DOMAIN prod : MapWrite(p) => pickle_lock = p ]_vars

\* C22: once self._release_data is set, no snapshot is added to the map
\* and none is replaced.
C22_NoSnapshotOnceImmediate ==
    [][release_data =>
          \A k \in DOMAIN pickled_messages' :
             /\ k \in DOMAIN pickled_messages
             /\ pickled_messages'[k] = pickled_messages[k]]_vars

\* C24: on the left stream the payload of a timestamp comes before the
\* watermark of that timestamp, and no payload of a timestamp comes after
\* a watermark of it.
C24_PayloadBeforeWatermark ==
    \A i \in DOMAIN left_stream :
       left_stream[i].kind = "wm" =>
          /\ \E j \in 1..(i - 1) :
                /\ left_stream[j].kind = "data"
                /\ left_stream[j].ts = left_stream[i].ts
          /\ \A j \in (i + 1)..Len(left_stream) :
                ~(/\ left_stream[j].kind = "data"
                  /\ left_stream[j].ts = left_stream[i].ts)

\* The right stream carries the watermark of timestamp k.
MarkerSent(k) ==
    \E i \in DOMAIN right_stream :
       right_stream[i].kind = "wm" /\ right_stream[i].ts = k

\* C26: a gated offer stores the snapshot of timestamp k before it sends
\* the watermark of k on the right stream: as long as no release has
\* deleted a snapshot of k, the map holds one once that watermark is sent,
\* and the lookup of a release of k made after it succeeds, whatever the
\* callbacks for other timestamps do.
C26_SnapshotBeforeMarker ==
    [][\A k \in GateKeys :
          /\ (MarkerSent(k)' /\ nDel'[k] = 0) =>
                k \in DOMAIN pickled_messages'
          /\ \A h \in DOMAIN hand :
                (MapRead(h) /\ hand[h].ts = k /\ MarkerSent(k)
                 /\ nDel[k] = 0) =>
                   /\ hand'[h].pc = "send_pickled"
                   /\ hand'[h].msg = pickled_messages[k]]_vars

\* C26 happens: timestamp 2 was offered and released in between, and a
\* release of timestamp 1 that found the watermark of 1 on the right stream
\* has sent the payload of 1.
C26_Witness ==
    /\ MarkerSent(1)
    /\ nOffer[1] = 1 /\ nOffer[2] = 1
    /\ DataIndices(left_stream, 1) # {}
    /\ \E h \in DOMAIN hand : hand[h].ts = 1 /\ hand[h].pc = "done"
    /\ nDel[1] = 1

(***************************************************************************)
(* The window of the decay operator                                        *)
(***************************************************************************)
\* Window q is in the order of its game times, the oldest on the left.
OldestFirst(q) ==
    \A i \in DOMAIN q : \A j \in DOMAIN q : i < j => q[i][1] <= q[j][1]

\* C25: on_data at time k with boxes S that returns adds exactly one entry,
\* (k, S), on the right of what the eviction left of the window, also when
\* S is empty, and the eviction takes entries from the left only; with game
\* times that never go down the window is ordered by game time, the oldest
\* on the left, so no entry older than decay_max_latency stays behind.
C25_AppendsAtTail ==
    [][ObserveStep =>
          LET k == decay_last'.game_time
              S == decay_last'.bboxes
              gone == decay_last'.evicted
              n == Len(ground_bboxes')
          IN  /\ gone \in 0..Len(ground_bboxes)
              /\ n = Len(ground_bboxes) - gone + 1
              /\ ground_bboxes'[n] = <<k, S>>
              /\ \A i \in 1..(n - 1) :
                     ground_bboxes'[i] = ground_bboxes[i + gone]
              /\ monotone' =>
                     /\ OldestFirst(ground_bboxes')
                     /\ \A i \in DOMAIN ground_bboxes :
                           k - ground_bboxes[i][1] > DecayMaxLatency =>
                              i <= gone]_vars

\* C25 happens: game times never went down, the latest call had no boxes,
\* evicted an entry and appended its empty list to an entry that stayed.
C25_Witness ==
    /\ monotone
    /\ decay_last.result = "ok"
    /\ decay_last.bboxes = <<>>
    /\ decay_last.evicted >= 1
    /\ Len(ground_bboxes) >= 2
    /\ ground_bboxes[Len(ground_bboxes)] = <<decay_last.game_time, <<>>>>
    /\ ground_bboxes[1][1] < decay_last.game_time

(***************************************************************************)
(* Which batch the evaluator scores, against what                          *)
(***************************************************************************)
\* Record r in world coordinates.
InWorld(r) == [r EXCEPT !.frame = "world"]

\* C27: a non-top watermark that raises because the pose, the tracking or
\* the prediction buffer is empty takes no record out of any of the three
\* buffers and leaves the window of predictions as it was.
C27_StarvedWatermarkTakesNothing ==
    [][(WatermarkStep /\ SomeBufferEmpty /\ last'.result = "IndexError") =>
          UNCHANGED <<tracking_msgs, prediction_msgs, pose_msgs,
                      predictions>>]_vars

\* C28: while no watermark raised, the n-th non-top watermark, n > W,
\* scores the batch that the (n - W)-th one took from the prediction
\* buffer, against the tracking message and the pose it takes itself; it
\* reads that batch from the window as it was before the call, which holds
\* the batches of the W watermarks before it, and the batch it takes itself
\* is the newest of the window afterwards.
C28_ScoresBatchOfWStepsBack ==
    [][(WatermarkStep /\ ~anyErr') =>
          LET n == nWm'
              newest == predictions'[Len(predictions')]
          IN  /\ Len(consumed') = n
              /\ consumed'[n] = Head(prediction_msgs)
              /\ newest = InWorld(consumed'[n])
              /\ n > W =>
                     /\ Len(last'.scored) = 1
                     /\ last'.scored[1].batch = InWorld(consumed[n - W])
                     /\ last'.scored[1].ground = InWorld(Head(tracking_msgs))
                     /\ last'.scored[1].pose = Head(pose_msgs)
                     /\ last'.scored[1].batch = predictions[1]
                     /\ \A i \in DOMAIN predictions :
                           predictions[i] = InWorld(consumed[n - 1 - W + i])]_vars

\* C28 happens: no watermark raised, more than W of them ran, and the
\* latest scored a batch of an earlier timestamp than the tracking message
\* and the pose it was scored against, with a later pose still waiting.
C28_Witness ==
    /\ ~anyErr
    /\ nWm > W
    /\ last.op = "on_watermark" /\ last.result = "ok"
    /\ Len(last.scored) = 1
    /\ last.scored[1].batch = InWorld(consumed[nWm - W])
    /\ last.scored[1].batch.key < last.scored[1].ground.key
    /\ pose_msgs # <<>>

(***************************************************************************)
(* Progress of the gate's threads                                          *)
(***************************************************************************)
\* Some thread is inside a callback.
SomeRunning ==
    \/ \E p \in DOMAIN prod : ~ProdResting(p)
    \/ \E h \in DOMAIN hand : ~HandResting(h)

\* Some thread can take its next step.
SomeCanStep ==
    \/ \E p \in DOMAIN prod : ENABLED ProducerStep(p)
    \/ \E h \in DOMAIN hand : ENABLED HandlerStep(h)

\* _pickle_lock is only ever taken after _lock, never before it: a thread
\* that waits for _lock holds nothing, a thread that holds _pickle_lock
\* waits for nothing, and on_watermark never takes _lock.
LockOrder ==
    /\ \A p \in DOMAIN prod :
          /\ prod[p].pc = "wait_lock" => (lock # p /\ pickle_lock # p)
          /\ pickle_lock = p => (lock = p /\ prod[p].pc = "store")
          /\ ProdResting(p) => (lock # p /\ pickle_lock # p)
    /\ \A h \in DOMAIN hand :
          /\ lock # h
          /\ pickle_lock = h => hand[h].pc = "del"
          /\ HandResting(h) => pickle_lock # h

\* C23: with process_point_clouds on two threads and on_watermark on two,
\* the locks are taken in one order only, in no reachable state are all
\* the threads inside a callback stuck, and under fair scheduling every
\* callback that was entered returns or raises: whenever a thread is inside
\* a callback, a state follows in which none is.
C23_NoDeadlockAndProgress ==
    /\ [](LockOrder /\ (SomeRunning => SomeCanStep))
    /\ []<>(~SomeRunning)

\* C23 happens: a thread holds _lock and waits for _pickle_lock, which an
\* on_watermark holds, and all the callbacks were entered.
C23_Witness ==
    /\ \E p \in DOMAIN prod, h \in DOMAIN hand :
          /\ lock = p /\ prod[p].pc = "wait_pickle"
          /\ pickle_lock = h
    /\ SumOver(nOffer, GateKeys) = MaxOffers
    /\ nRelease = MaxReleases

====
